---------------------------- MODULE Spec2Model ----------------------------
(***************************************************************************)
(* The chat palette of the CadxStudio AI Copilot add-in (the palette       *)
(* script, src/unnamed/part_000, running in the page of                    *)
(* src/commands/paletteShow/resources/html/index.html).                    *)
(*                                                                         *)
(* The page is a single-threaded event loop.  Every action below is one    *)
(* task of that loop, run to completion: a user event, the settlement of   *)
(* a bridge promise (its then / catch / finally reactions run back to      *)
(* back as microtasks), a host push through fusionJavaScriptHandler, or a  *)
(* timer callback.                                                         *)
(*                                                                         *)
(* Text is modelled by TLA+ strings and the JavaScript built-ins the       *)
(* script calls (String.prototype.trim, String.prototype.replace,          *)
(* JSON.parse, JSON.stringify, template-literal conversion) are computed   *)
(* character by character.                                                 *)
(***************************************************************************)
EXTENDS Integers, Sequences, FiniteSets, TLC

(***************************************************************************)
(* Strings                                                                 *)
(***************************************************************************)
Char(s, i) == SubSeq(s, i, i)

Drop(s, n) == SubSeq(s, n + 1, Len(s))

StartsWith(s, i, t) == /\ i + Len(t) - 1 <= Len(s)
                       /\ SubSeq(s, i, i + Len(t) - 1) = t

Contains(s, t) == \E i \in 1..(Len(s) - Len(t) + 1) : StartsWith(s, i, t)

\* White space String.prototype.trim strips (the members that occur in the inputs).
TrimWhitespace == {" ", "\t", "\n", "\r"}

RECURSIVE TrimStart(_)
TrimStart(s) == IF Len(s) > 0 /\ Char(s, 1) \in TrimWhitespace
                THEN TrimStart(Drop(s, 1))
                ELSE s

RECURSIVE TrimEnd(_)
TrimEnd(s) == IF Len(s) > 0 /\ Char(s, Len(s)) \in TrimWhitespace
              THEN TrimEnd(SubSeq(s, 1, Len(s) - 1))
              ELSE s

\* String.prototype.trim
Trim(s) == TrimEnd(TrimStart(s))

\* A replace that replaces nothing.
ReplaceNothing(s, pat, rep) == s

\* String.prototype.replace(pattern, replacement) with a string pattern: only
\* the first occurrence is replaced.
ReplaceFirst(s, pat, rep) ==
    IF Contains(s, pat)
    THEN LET i == CHOOSE k \in 1..Len(s) :
                      /\ StartsWith(s, k, pat)
                      /\ \A j \in 1..(k - 1) : ~StartsWith(s, j, pat)
         IN  SubSeq(s, 1, i - 1) \o rep \o SubSeq(s, i + Len(pat), Len(s))
    ELSE s

Digits == <<"0", "1", "2", "3", "4", "5", "6", "7", "8", "9">>

IsDigit(c) == \E d \in 1..10 : Digits[d] = c

DigitValue(c) == (CHOOSE d \in 1..10 : Digits[d] = c) - 1

\* Number-to-string conversion of a non-negative integer.
RECURSIVE NatToString(_)
NatToString(n) == IF n < 10
                  THEN Digits[n + 1]
                  ELSE NatToString(n \div 10) \o Digits[(n % 10) + 1]

(***************************************************************************)
(* JavaScript values, as JSON.parse builds them.  Every value is a record  *)
(* of the same shape; t is the type tag.  An object keeps its members in   *)
(* insertion order (kv), an array its elements (kv, with empty keys).      *)
(***************************************************************************)
JSUndefined == [t |-> "undefined", s |-> "", n |-> 0, kv |-> <<>>]
JSNull      == [t |-> "null", s |-> "", n |-> 0, kv |-> <<>>]
JSBool(b)   == [t |-> "boolean", s |-> IF b THEN "true" ELSE "false", n |-> 0, kv |-> <<>>]
JSString(s) == [t |-> "string", s |-> s, n |-> 0, kv |-> <<>>]
JSNumber(n) == [t |-> "number", s |-> "", n |-> n, kv |-> <<>>]
JSObject(m) == [t |-> "object", s |-> "", n |-> 0, kv |-> m]
JSArray(m)  == [t |-> "array", s |-> "", n |-> 0, kv |-> m]

Member(k, v) == [k |-> k, v |-> v]

\* obj[key] = value while parsing: a repeated key keeps its first position
\* and takes the last value.
ObjSet(m, k, v) ==
    IF \E i \in 1..Len(m) : m[i].k = k
    THEN [i \in 1..Len(m) |-> IF m[i].k = k THEN Member(k, v) ELSE m[i]]
    ELSE Append(m, Member(k, v))

\* Property read value.key.  Reading a property of null or undefined throws a
\* TypeError (CanRead is false); a missing property reads as undefined.  Of the
\* inherited properties only the ones the script touches matter: a string's
\* replace method is read through HasReplaceMethod below.
CanRead(v) == v.t \notin {"null", "undefined"}

Get(v, key) ==
    IF v.t = "object" /\ \E i \in 1..Len(v.kv) : v.kv[i].k = key
    THEN v.kv[CHOOSE i \in 1..Len(v.kv) : v.kv[i].k = key].v
    ELSE JSUndefined

(***************************************************************************)
(* JSON.parse: a recursive-descent parser of the JSON grammar restricted   *)
(* to strings without escape sequences and to non-negative integers        *)
(* without sign, fraction or exponent.  A result is [ok, v, i]: whether    *)
(* the text parsed, the value, and the index after it.  ok = FALSE is the  *)
(* SyntaxError JSON.parse throws.                                          *)
(***************************************************************************)
JSONWhitespace == {" ", "\t", "\n", "\r"}

ParseFail == [ok |-> FALSE, v |-> JSUndefined, i |-> 0]

ParseOk(v, i) == [ok |-> TRUE, v |-> v, i |-> i]

RECURSIVE SkipWs(_, _)
SkipWs(s, i) == IF i <= Len(s) /\ Char(s, i) \in JSONWhitespace
                THEN SkipWs(s, i + 1)
                ELSE i

\* The index of the closing quote of the string whose opening quote is before
\* index i, or 0 when the string is unterminated or holds an escape or a
\* control character.
RECURSIVE StringEnd(_, _)
StringEnd(s, i) == IF i > Len(s) \/ Char(s, i) \in {"\\", "\n", "\t", "\r"}
                   THEN 0
                   ELSE IF Char(s, i) = "\"" THEN i ELSE StringEnd(s, i + 1)

ParseString(s, i) ==
    IF i <= Len(s) /\ Char(s, i) = "\"" /\ StringEnd(s, i + 1) > 0
    THEN ParseOk(JSString(SubSeq(s, i + 1, StringEnd(s, i + 1) - 1)),
                 StringEnd(s, i + 1) + 1)
    ELSE ParseFail

RECURSIVE NumberEnd(_, _)
NumberEnd(s, i) == IF i <= Len(s) /\ IsDigit(Char(s, i))
                   THEN NumberEnd(s, i + 1)
                   ELSE i

RECURSIVE DigitsValue(_, _, _)
DigitsValue(s, i, j) == IF i >= j
                        THEN 0
                        ELSE DigitsValue(s, i, j - 1) * 10 + DigitValue(Char(s, j - 1))

ParseNumber(s, i) ==
    LET j == NumberEnd(s, i)
    IN  IF j = i \/ (j > i + 1 /\ Char(s, i) = "0")
        THEN ParseFail
        ELSE ParseOk(JSNumber(DigitsValue(s, i, j)), j)

RECURSIVE ParseValue(_, _)
RECURSIVE ParseMembers(_, _, _)
RECURSIVE ParseElements(_, _, _)

\* value at index i (white space before it already skipped)
ParseValue(s, i) ==
    IF i > Len(s) THEN ParseFail
    ELSE IF Char(s, i) = "{" THEN
        LET j == SkipWs(s, i + 1)
        IN  IF j <= Len(s) /\ Char(s, j) = "}"
            THEN ParseOk(JSObject(<<>>), j + 1)
            ELSE ParseMembers(s, j, <<>>)
    ELSE IF Char(s, i) = "[" THEN
        LET j == SkipWs(s, i + 1)
        IN  IF j <= Len(s) /\ Char(s, j) = "]"
            THEN ParseOk(JSArray(<<>>), j + 1)
            ELSE ParseElements(s, j, <<>>)
    ELSE IF Char(s, i) = "\"" THEN ParseString(s, i)
    ELSE IF StartsWith(s, i, "true") THEN ParseOk(JSBool(TRUE), i + 4)
    ELSE IF StartsWith(s, i, "false") THEN ParseOk(JSBool(FALSE), i + 5)
    ELSE IF StartsWith(s, i, "null") THEN ParseOk(JSNull, i + 4)
    ELSE ParseNumber(s, i)

\* members of an object from index i (at a key), m the members read so far
ParseMembers(s, i, m) ==
    LET key == ParseString(s, i)
        c   == SkipWs(s, key.i)
        val == ParseValue(s, SkipWs(s, c + 1))
        e   == SkipWs(s, val.i)
    IN  IF ~key.ok \/ c > Len(s) \/ Char(s, c) # ":" THEN ParseFail
        ELSE IF ~val.ok \/ e > Len(s) THEN ParseFail
        ELSE IF Char(s, e) = "}" THEN ParseOk(JSObject(ObjSet(m, key.v.s, val.v)), e + 1)
        ELSE IF Char(s, e) = ","
             THEN ParseMembers(s, SkipWs(s, e + 1), ObjSet(m, key.v.s, val.v))
        ELSE ParseFail

\* elements of an array from index i (at a value), m the elements read so far
ParseElements(s, i, m) ==
    LET val == ParseValue(s, i)
        e   == SkipWs(s, val.i)
    IN  IF ~val.ok \/ e > Len(s) THEN ParseFail
        ELSE IF Char(s, e) = "]" THEN ParseOk(JSArray(Append(m, Member("", val.v))), e + 1)
        ELSE IF Char(s, e) = ","
             THEN ParseElements(s, SkipWs(s, e + 1), Append(m, Member("", val.v)))
        ELSE ParseFail

\* JSON.parse(text): [ok |-> FALSE] is a thrown SyntaxError.
ParseText(text) ==
    LET r == ParseValue(text, SkipWs(text, 1))
    IN  IF r.ok /\ SkipWs(text, r.i) = Len(text) + 1
        THEN [ok |-> TRUE, v |-> r.v]
        ELSE [ok |-> FALSE, v |-> JSUndefined]

(***************************************************************************)
(* JSON.stringify(value) without indentation, and the string a template    *)
(* literal makes of a value.                                               *)
(***************************************************************************)
RECURSIVE JSONStringify(_)
RECURSIVE StringifyMembers(_, _)
RECURSIVE StringifyElements(_, _)

\* JSON.stringify(v) for a value JSON.parse built; of undefined it is
\* undefined, which a template literal prints as "undefined".
JSONStringify(v) ==
    CASE v.t = "string"    -> "\"" \o v.s \o "\""
      [] v.t = "number"    -> NatToString(v.n)
      [] v.t = "boolean"   -> v.s
      [] v.t = "null"      -> "null"
      [] v.t = "undefined" -> "undefined"
      [] v.t = "object"    -> "{" \o StringifyMembers(v.kv, 1) \o "}"
      [] v.t = "array"     -> "[" \o StringifyElements(v.kv, 1) \o "]"

StringifyMembers(m, i) ==
    IF i > Len(m) THEN ""
    ELSE "\"" \o m[i].k \o "\":" \o JSONStringify(m[i].v)
         \o (IF i < Len(m) THEN "," ELSE "") \o StringifyMembers(m, i + 1)

StringifyElements(m, i) ==
    IF i > Len(m) THEN ""
    ELSE JSONStringify(m[i].v)
         \o (IF i < Len(m) THEN "," ELSE "") \o StringifyElements(m, i + 1)

RECURSIVE ToDisplayString(_)
RECURSIVE JoinElements(_, _)

\* `${v}`: the ToString conversion of a template literal.
ToDisplayString(v) ==
    CASE v.t = "string"    -> v.s
      [] v.t = "number"    -> NatToString(v.n)
      [] v.t = "boolean"   -> v.s
      [] v.t = "null"      -> "null"
      [] v.t = "undefined" -> "undefined"
      [] v.t = "object"    -> "[object Object]"
      [] v.t = "array"     -> JoinElements(v.kv, 1)

\* Array.prototype.join(","), which prints null and undefined as nothing.
JoinElements(m, i) ==
    IF i > Len(m) THEN ""
    ELSE (IF m[i].v.t \in {"null", "undefined"} THEN "" ELSE ToDisplayString(m[i].v))
         \o (IF i < Len(m) THEN "," ELSE "") \o JoinElements(m, i + 1)

\* Whether value.replace is callable: only a string has the method (a parsed
\* object or array member named replace is never a function).
HasReplaceMethod(v) == v.t = "string"


(***************************************************************************)
(* Bounds of the model                                                     *)
(***************************************************************************)
\* entries of messageHistory
MaxMessages == 2
\* scheduled timer callbacks (of 3000 ms and of 300 ms) that have not run yet
MaxTimers == 1

(***************************************************************************)
(* Inputs                                                                  *)
(***************************************************************************)
\* What the user types into the textarea.
InputTexts == {"", " \n", " Create a 20mm cube\n"}

\* The quick action of index.html the model clicks (the page has four, which
\* differ in their text only).
QuickCommands == {"Create a 20mm cube"}

ReplySuccess    == "{\"status\":\"success\",\"action\":\"make_hole\",\"parameters\":{\"d\": 8}}"
ReplyError      == "{\"status\":\"error\",\"message\":\"bad param\"}"
ReplyProcessing == "{\"status\":\"processing\"}"
ReplyNoStatus   == "{}"
ReplyNull       == "null"
ReplyText       == "hello"

\* What the host answers a bridge call with, and what it pushes as aiResponse:
\* one reply of each status, one without a status, one that decodes to no
\* object, one that is no JSON.
Replies == {ReplySuccess, ReplyError, ReplyProcessing, ReplyNoStatus, ReplyNull, ReplyText}

\* Further texts, on which the script's functions are evaluated in every
\* reachable state without the host sending them.
OtherSuccessTexts == {"{\"status\":\"success\",\"parameters\":{\"d\":8}}",
                      "{\"status\":\"success\",\"action\":7,\"parameters\":[1, 2]}",
                      "{\"action\":\"a_b_c\",\"status\":\"success\"}",
                      " {\"status\" : \"success\", \"action\" : \"cube\", \"parameters\" : null} "}

OtherErrorTexts == {"{\"status\":\"error\"}",
                    "{\"status\":\"error\",\"message\":{\"code\":3}}",
                    "{\"status\":\"error\",\"message\":404,\"status\":\"error\"}"}

OtherStatusTexts == {"{\"status\":\"done\"}", "{\"status\":\"Success\"}",
                     "{\"status\":null,\"message\":\"x\"}", "{\"status\":{\"status\":\"error\"}}",
                     "\"hello\"", "8", "true", "[{\"status\":\"success\"}]"}

OtherPlainTexts == {"", " ", "{\"status\":\"error\"", "{status:\"error\"}", "undefined",
                    "{\"status\":\"success\",}", "Created: gear"}

ProbeTexts == Replies \cup OtherSuccessTexts \cup OtherErrorTexts
                      \cup OtherStatusTexts \cup OtherPlainTexts

UpdateData == "{\"myText\":\"t\",\"myExpression\":\"2*3\",\"myValue\":6}"

\* The events the host pushes, as <<action, data>>: the three actions the
\* handler knows, each with data its function accepts and, where there is
\* such data, data it throws on; and an action it does not know.
HostEvents == ({"aiResponse"} \X Replies)
              \cup ({"updateMessage"} \X {UpdateData, ReplyText})
              \cup ({"debugger"} \X {ReplyText})
              \cup ({"refresh"} \X {ReplyError})

\* The texts JSON.stringify makes of the texts that parse.
NormalisedTexts == {JSONStringify(ParseText(text).v) :
                        text \in {r \in ProbeTexts : ParseText(r).ok}}

\* JSON.parse, with the parses of these texts computed once.
HostTexts == ProbeTexts \cup {UpdateData, "{\"myText\":"} \cup NormalisedTexts

ParsedHostText == [text \in HostTexts |-> ParseText(text)]

JSONParse(text) == IF text \in HostTexts THEN ParsedHostText[text] ELSE ParseText(text)

(***************************************************************************)
(* The page: the DOM the script touches and the script's own state.        *)
(*   chatInput         value of the textarea #chatInput                    *)
(*   sendBtnDisabled   the disabled property of the button #sendBtn        *)
(*   messagesContainer children of #messagesContainer, in document order   *)
(*   messageHistory    the script's array                                  *)
(*   pending           bridge promises that have not settled               *)
(*   fadeTimers        3000 ms callbacks scheduled and not yet run         *)
(*   removeTimers      300 ms callbacks scheduled and not yet run, each    *)
(*                     holding the element it will remove                  *)
(*   lastPush          the last call of fusionJavaScriptHandler.handle, as *)
(*                     the host and the console saw it: what came back (a *)
(*                     string, or Thrown for an exception) and whether    *)
(*                     the catch block logged an exception                 *)
(***************************************************************************)
VARIABLES chatInput, sendBtnDisabled, messagesContainer, messageHistory,
          pending, fadeTimers, removeTimers, lastPush

vars == <<chatInput, sendBtnDisabled, messagesContainer, messageHistory,
          pending, fadeTimers, removeTimers, lastPush>>

WelcomeText == "Welcome to CadxStudio AI Copilot! I can help you create 3D models using natural language. Try asking me to create gears, holes, basic shapes, or use the quick actions above."

\* Banner texts (the source prefixes the last three with an emoji, which a
\* TLA+ string cannot hold).
LoadingText    == "CadxStudio AI is analyzing your command..."
SuccessText    == "Command executed successfully!"
FailedText     == "Command failed to execute"
ProcessingText == "AI is processing your command..."
BridgeErrorText == "Error communicating with Fusion 360. Please try again."

\* <div class="message TYPE"> with its content
MessageNode(content, type) ==
    [node |-> 0, cls |-> "message", type |-> type, text |-> content, opacity |-> ""]

\* <div class="status-message TYPE" id="currentStatus">; node is the identity
\* of the element, which a removal callback holds on to.
StatusNode(n, message, type) ==
    [node |-> n, cls |-> "status-message", type |-> type, text |-> message, opacity |-> ""]

Page == [chatInput |-> chatInput, sendBtnDisabled |-> sendBtnDisabled,
         messagesContainer |-> messagesContainer, messageHistory |-> messageHistory,
         pending |-> pending, fadeTimers |-> fadeTimers, removeTimers |-> removeTimers]

RemoveAt(q, i) == SubSeq(q, 1, i - 1) \o SubSeq(q, i + 1, Len(q))

\* Indices of the banner elements in the document.
StatusIndices(c) == {i \in 1..Len(c) : c[i].cls = "status-message"}

\* document.getElementById('currentStatus') and
\* document.querySelector('.status-message'): the first such element in
\* document order, as an index into the container; 0 is null.
FirstStatus(c) == IF StatusIndices(c) = {}
                  THEN 0
                  ELSE CHOOSE i \in StatusIndices(c) : \A j \in StatusIndices(c) : i <= j

\* Element identities in use: attached banners and the ones callbacks hold.
NodeIds == 1..(MaxTimers + 2)

UsedNodes(pg) == {pg.messagesContainer[i].node : i \in StatusIndices(pg.messagesContainer)}
                 \cup {pg.removeTimers[i] : i \in 1..Len(pg.removeTimers)}

\* document.createElement: an element distinct from every live one.
FreshNode(pg) == CHOOSE n \in NodeIds :
                     /\ n \notin UsedNodes(pg)
                     /\ \A m \in NodeIds : m \notin UsedNodes(pg) => n <= m

(***************************************************************************)
(* The script's functions, as functions from page to page.  A function     *)
(* that can throw yields [threw, pg]: whether an exception left it, and    *)
(* the page as it stood then.                                              *)
(***************************************************************************)
\* An addMessage that puts the entry at the front of messageHistory.
AddMessageAtFront(pg, content, type) ==
    [pg EXCEPT !.messagesContainer = Append(@, MessageNode(content, type)),
               !.messageHistory = <<[content |-> content, type |-> type]>> \o @]

\* addMessage: the bubble is attached at the end of the container and the
\* entry pushed onto messageHistory.
AddMessage(pg, content, type) ==
    [pg EXCEPT !.messagesContainer = Append(@, MessageNode(content, type)),
               !.messageHistory = Append(@, [content |-> content, type |-> type])]

\* An addStatusMessage that appends the new banner next to the existing one.
AddStatusMessageStacking(pg, message, type) ==
    [pg EXCEPT !.messagesContainer = Append(@, StatusNode(FreshNode(pg), message, type))]

\* addStatusMessage: the element with id currentStatus is looked up before the
\* new one is attached, so it is the existing banner that is removed.
AddStatusMessage(pg, message, type) ==
    LET statusDiv == StatusNode(FreshNode(pg), message, type)
        existing  == FirstStatus(pg.messagesContainer)
        kept      == IF existing # 0
                     THEN RemoveAt(pg.messagesContainer, existing)
                     ELSE pg.messagesContainer
    IN  [pg EXCEPT !.messagesContainer = Append(kept, statusDiv)]

\* A removeStatusMessage that leaves the banner in place.
KeepStatusMessage(pg) == pg

RemoveStatusMessage(pg) ==
    LET statusDiv == FirstStatus(pg.messagesContainer)
    IN  IF statusDiv # 0
        THEN [pg EXCEPT !.messagesContainer = RemoveAt(@, statusDiv)]
        ELSE pg

\* The try block of handleAIResponse after JSON.parse, parsed being what
\* JSON.parse gave.  It throws when JSON.parse did (SyntaxError), when the
\* parsed value is null (reading .status) and when a success reply's action
\* has no replace method (TypeError).
InterpretParsed(pg, parsed) ==
    IF ~parsed.ok \/ ~CanRead(parsed.v)
    THEN [threw |-> TRUE, pg |-> pg]
    ELSE IF Get(parsed.v, "status") = JSString("success")
    THEN IF ~HasReplaceMethod(Get(parsed.v, "action"))
         THEN [threw |-> TRUE, pg |-> AddStatusMessage(pg, SuccessText, "success")]
         ELSE [threw |-> FALSE,
               pg |-> AddMessage(AddStatusMessage(pg, SuccessText, "success"),
                          "Created: " \o ReplaceFirst(Get(parsed.v, "action").s, "_", " ")
                          \o " with parameters: "
                          \o JSONStringify(Get(parsed.v, "parameters")),
                          "assistant")]
    ELSE IF Get(parsed.v, "status") = JSString("error")
    THEN [threw |-> FALSE,
          pg |-> AddMessage(AddStatusMessage(pg, FailedText, "error"),
                     "Error: " \o ToDisplayString(Get(parsed.v, "message")),
                     "assistant")]
    ELSE IF Get(parsed.v, "status") = JSString("processing")
    THEN [threw |-> FALSE, pg |-> AddStatusMessage(pg, ProcessingText, "loading")]
    ELSE [threw |-> FALSE, pg |-> pg]

\* The try block of handleAIResponse.
InterpretResponse(pg, response) == InterpretParsed(pg, JSONParse(response))

\* CatchAndSchedule with the raw response shown after the try block however
\* it ended.
ShowRawAlways(try, response) ==
    [threw |-> FALSE,
     pg |-> [AddMessage(try.pg, response, "assistant") EXCEPT !.fadeTimers = @ + 1]]

\* CatchAndSchedule without the catch block: the exception leaves
\* handleAIResponse.
ScheduleWithoutCatch(try, response) ==
    [threw |-> try.threw,
     pg |-> IF try.threw THEN try.pg ELSE [try.pg EXCEPT !.fadeTimers = @ + 1]]

\* The catch block of handleAIResponse, which shows the raw response, and the
\* scheduling of the 3000 ms callback; try is how the try block ended.
CatchAndSchedule(try, response) ==
    [threw |-> FALSE,
     pg |-> [(IF try.threw THEN AddMessage(try.pg, response, "assistant") ELSE try.pg)
                EXCEPT !.fadeTimers = @ + 1]]

\* handleAIResponse: the banner is removed, the try block runs, its catch
\* shows the raw response, and the 3000 ms callback is scheduled.
HandleAIResponse(pg, response) ==
    CatchAndSchedule(InterpretResponse(RemoveStatusMessage(pg), response), response)

\* The catch and finally reactions of sendChatMessage's promise chain; then is
\* how the then reaction ended.
CatchAndFinally(then) ==
    [(IF then.threw
      THEN AddMessage(RemoveStatusMessage(then.pg), BridgeErrorText, "assistant")
      ELSE then.pg) EXCEPT !.sendBtnDisabled = FALSE]

\* The promise chain of sendChatMessage once the bridge call resolves:
\* then(handleAIResponse), catch for an exception of the then reaction, finally.
SettleResolved(pg, result) == CatchAndFinally(HandleAIResponse(pg, result))

\* SettleRejected with the re-enabling of the button in the then reaction
\* instead of a finally: a rejected call leaves the button as it was.
SettleRejectedNoFinally(pg) ==
    AddMessage(RemoveStatusMessage(pg), BridgeErrorText, "assistant")

\* SettleRejected with a catch reaction that sends the command again.
SettleRejectedRetry(pg) ==
    [AddMessage(RemoveStatusMessage(pg), BridgeErrorText, "assistant")
        EXCEPT !.sendBtnDisabled = FALSE,
               !.pending = Append(@, [channel |-> "aiCommand", command |-> "again"])]

\* The same chain once the bridge call rejects: catch, finally.
SettleRejected(pg) ==
    [AddMessage(RemoveStatusMessage(pg), BridgeErrorText, "assistant")
        EXCEPT !.sendBtnDisabled = FALSE]

\* SendChatMessage without the trim of the input.
SendChatMessageNoTrim(pg) ==
    LET userCommand == pg.chatInput
        shown == AddStatusMessage(AddMessage(pg, userCommand, "user"),
                                  LoadingText, "loading")
    IN  IF userCommand = ""
        THEN pg
        ELSE [shown EXCEPT !.chatInput = "",
                           !.sendBtnDisabled = TRUE,
                           !.pending = Append(@, [channel |-> "aiCommand",
                                                  command |-> userCommand])]

\* sendChatMessage: nothing on an input that trims to nothing; else the user's
\* message, the cleared input, the disabled button, the loading banner and the
\* bridge call.
SendChatMessage(pg) ==
    LET userCommand == Trim(pg.chatInput)
        shown == AddStatusMessage(AddMessage(pg, userCommand, "user"),
                                  LoadingText, "loading")
    IN  IF userCommand = ""
        THEN pg
        ELSE [shown EXCEPT !.chatInput = "",
                           !.sendBtnDisabled = TRUE,
                           !.pending = Append(@, [channel |-> "aiCommand",
                                                  command |-> userCommand])]

\* The two keydown listeners of #chatInput, in registration order, for the
\* Enter key.  (When neither acts the textarea takes a newline, which is an
\* edit of the text: see TypeInput.)
KeydownEnter(pg, ctrlKey, shiftKey) ==
    LET first  == IF ctrlKey THEN SendChatMessage(pg) ELSE pg
        second == IF ~shiftKey /\ ~ctrlKey THEN SendChatMessage(first) ELSE first
    IN  second

InsertQuickCommand(pg, command) == [pg EXCEPT !.chatInput = command]

\* The catch block of handleAIUpdate: handleAIResponse on the raw string,
\* when the call in the try block threw; first is how that call ended.
RetryRaw(first, messageString) ==
    IF first.threw THEN HandleAIResponse(first.pg, messageString) ELSE first

\* handleAIUpdate: its try block covers JSON.parse and the first call of
\* handleAIResponse; its catch calls handleAIResponse on the raw string.
HandleAIUpdate(pg, messageString) ==
    IF ~JSONParse(messageString).ok
    THEN HandleAIResponse(pg, messageString)
    ELSE RetryRaw(HandleAIResponse(pg, JSONStringify(JSONParse(messageString).v)),
                  messageString)

\* updateMessage after JSON.parse, messageData being what JSON.parse gave:
\* it throws when JSON.parse did, and when reading a property of null.
UpdateParsed(pg, messageData) ==
    IF ~messageData.ok \/ ~CanRead(messageData.v)
    THEN [threw |-> TRUE, pg |-> pg]
    ELSE [threw |-> FALSE,
          pg |-> AddMessage(pg,
                     "Text: " \o ToDisplayString(Get(messageData.v, "myText"))
                     \o ", Expression: "
                     \o ToDisplayString(Get(messageData.v, "myExpression"))
                     \o ", Value: "
                     \o ToDisplayString(Get(messageData.v, "myValue")),
                     "assistant")]

UpdateMessage(pg, messageString) == UpdateParsed(pg, JSONParse(messageString))

\* The try block of fusionJavaScriptHandler.handle: [threw, returned, ret, pg],
\* returned when the block itself returns (the diagnostic of an unknown action).
Dispatch(pg, action, data) ==
    IF action = "updateMessage"
    THEN [returned |-> FALSE, ret |-> ""] @@ UpdateMessage(pg, data)
    ELSE IF action = "aiResponse"
    THEN [returned |-> FALSE, ret |-> ""] @@ HandleAIUpdate(pg, data)
    ELSE IF action = "debugger"
    THEN [returned |-> FALSE, ret |-> "", threw |-> FALSE, pg |-> pg]
    ELSE [returned |-> TRUE, ret |-> "Unexpected command type: " \o action,
          threw |-> FALSE, pg |-> pg]

\* CatchAndReturn without the catch block: the exception leaves handle.
ReturnWithoutCatch(try) ==
    [threw  |-> try.threw,
     caught |-> FALSE,
     ret    |-> IF try.returned /\ ~try.threw THEN try.ret ELSE "OK",
     pg     |-> try.pg]

\* CatchAndReturn with the diagnostic of the try block dropped.
ReturnOkAlways(try) ==
    [threw  |-> FALSE,
     caught |-> try.threw,
     ret    |-> "OK",
     pg     |-> try.pg]

\* The catch block of handle, which logs, and the return "OK" after it; try is
\* how the try block ended.
CatchAndReturn(try) ==
    [threw  |-> FALSE,
     caught |-> try.threw,
     ret    |-> IF try.returned /\ ~try.threw THEN try.ret ELSE "OK",
     pg     |-> try.pg]

\* fusionJavaScriptHandler.handle: [threw, caught, ret, pg].
Handle(pg, action, data) == CatchAndReturn(Dispatch(pg, action, data))

\* The callback handleAIResponse schedules after 3000 ms.
FadeStatus(pg) ==
    LET statusMsg == FirstStatus(pg.messagesContainer)
    IN  IF statusMsg # 0
        THEN [pg EXCEPT !.messagesContainer[statusMsg].opacity = "0",
                        !.removeTimers = Append(@, pg.messagesContainer[statusMsg].node),
                        !.fadeTimers = @ - 1]
        ELSE [pg EXCEPT !.fadeTimers = @ - 1]

\* A 300 ms callback that looks the banner up again when it runs, instead of
\* removing the element it was scheduled for.
RemoveFadedByLookup(pg) ==
    [RemoveStatusMessage(pg) EXCEPT !.removeTimers = Tail(@)]

\* The callback scheduled after a further 300 ms: statusMsg.remove(), which
\* does nothing to an element that is no longer attached.
RemoveFaded(pg) ==
    LET statusMsg == Head(pg.removeTimers)
        c  == pg.messagesContainer
        at == {i \in StatusIndices(c) : c[i].node = statusMsg}
    IN  [pg EXCEPT !.messagesContainer = IF at = {}
                                         THEN c
                                         ELSE RemoveAt(c, CHOOSE i \in at : TRUE),
                   !.removeTimers = Tail(@)]

(***************************************************************************)
(* The tasks of the event loop                                             *)
(***************************************************************************)
WithinBounds(pg) == /\ Len(pg.messageHistory) <= MaxMessages
                    /\ pg.fadeTimers + Len(pg.removeTimers) <= MaxTimers

\* The page after a task.
Commit(pg) ==
    /\ WithinBounds(pg)
    /\ chatInput' = pg.chatInput
    /\ sendBtnDisabled' = pg.sendBtnDisabled
    /\ messagesContainer' = pg.messagesContainer
    /\ messageHistory' = pg.messageHistory
    /\ pending' = pg.pending
    /\ fadeTimers' = pg.fadeTimers
    /\ removeTimers' = pg.removeTimers

\* What the host gets when an exception leaves handle.
Thrown == "(exception)"

\* No call of handle yet.
NoPush == [ret |-> "", caught |-> FALSE]

Init == /\ chatInput = ""
        /\ sendBtnDisabled = FALSE
        /\ messagesContainer = <<MessageNode(WelcomeText, "assistant")>>
        /\ messageHistory = <<>>
        /\ pending = <<>>
        /\ fadeTimers = 0
        /\ removeTimers = <<>>
        /\ lastPush = NoPush

\* The user edits the text of the textarea.
TypeInput ==
    \E text \in InputTexts :
        Commit([Page EXCEPT !.chatInput = text]) /\ UNCHANGED lastPush

\* The user clicks a quick action.
ClickQuickAction ==
    \E command \in QuickCommands :
        Commit(InsertQuickCommand(Page, command)) /\ UNCHANGED lastPush

\* The user clicks the send button; a disabled button dispatches no click.
ClickSend ==
    /\ ~sendBtnDisabled
    /\ Commit(SendChatMessage(Page))
    /\ UNCHANGED lastPush

\* The user presses Enter in the textarea, with or without Ctrl and Shift.
PressEnter ==
    \E ctrlKey \in BOOLEAN, shiftKey \in BOOLEAN :
        Commit(KeydownEnter(Page, ctrlKey, shiftKey)) /\ UNCHANGED lastPush

\* The host resolves a bridge call with a reply.
BridgeResolve ==
    \E i \in 1..Len(pending), result \in Replies :
        /\ Commit(SettleResolved([Page EXCEPT !.pending = RemoveAt(@, i)], result))
        /\ UNCHANGED lastPush

\* The host rejects a bridge call.
BridgeReject ==
    \E i \in 1..Len(pending) :
        /\ Commit(SettleRejected([Page EXCEPT !.pending = RemoveAt(@, i)]))
        /\ UNCHANGED lastPush

\* The host pushes an event through fusionJavaScriptHandler.handle.
HostPush ==
    \E event \in HostEvents :
        \E r \in {Handle(Page, event[1], event[2])} :
            /\ Commit(r.pg)
            /\ lastPush' = [ret |-> IF r.threw THEN Thrown ELSE r.ret,
                            caught |-> r.caught]

\* A 3000 ms callback runs.
FadeTimerFires ==
    /\ fadeTimers > 0
    /\ Commit(FadeStatus(Page)) /\ UNCHANGED lastPush

\* The oldest 300 ms callback runs.
RemoveTimerFires ==
    /\ removeTimers # <<>>
    /\ Commit(RemoveFaded(Page)) /\ UNCHANGED lastPush

Next == \/ TypeInput
        \/ ClickQuickAction
        \/ ClickSend
        \/ PressEnter
        \/ BridgeResolve
        \/ BridgeReject
        \/ HostPush
        \/ FadeTimerFires
        \/ RemoveTimerFires

Spec == Init /\ [][Next]_vars


(***************************************************************************)
(* Properties                                                              *)
(***************************************************************************)
\* The bridge calls started by sendChatMessage that have not settled.
Outstanding == {i \in 1..Len(pending) : pending[i].channel = "aiCommand"}

\* C1 (as claimed): in every reachable state the send control is disabled
\* whenever an "aiCommand" bridge call started by sendChatMessage is
\* outstanding, and at most one such call is outstanding.
C1_SendControlGuardsBridge ==
    /\ Outstanding # {} => sendBtnDisabled
    /\ Cardinality(Outstanding) <= 1

\* C2: whenever a bridge call of sendChatMessage settles (resolves with any
\* reply, or rejects), the send control is enabled right after.
C2_EnabledAfterSettle ==
    [][Len(pending') < Len(pending) => ~sendBtnDisabled']_vars

\* A send was rejected and the page shows the generic error with the send
\* control enabled again.
C2_Witness ==
    /\ pending = <<>>
    /\ ~sendBtnDisabled
    /\ Len(messageHistory) = 2
    /\ messageHistory[1].type = "user"
    /\ messageHistory[2].content = BridgeErrorText

\* C3: sendChatMessage on an input that is empty or only white space changes
\* nothing of the page: no message, no banner, no bridge call, the send
\* control and the input text as they were.
C3_EmptySendIsNoOp ==
    Trim(chatInput) = "" => SendChatMessage(Page) = Page

\* The input holds white space only and the send control is enabled, so that
\* a click or Enter calls sendChatMessage on it.
C3_Witness ==
    /\ chatInput # ""
    /\ Trim(chatInput) = ""
    /\ ~sendBtnDisabled


\* The texts handleAIResponse is evaluated on: the replies, the further
\* texts, and what handleAIUpdate makes of them.
ResponseTexts == ProbeTexts \cup NormalisedTexts

\* The banner elements of a page, in document order.
Banners(pg) == SelectSeq(pg.messagesContainer, LAMBDA n : n.cls = "status-message")

\* The kinds of the banners of a page.
BannerTypes(pg) == [i \in 1..Len(Banners(pg)) |-> Banners(pg)[i].type]

\* The entries a call appended to messageHistory, when it kept the earlier ones.
Appended(after) ==
    IF /\ Len(after.messageHistory) >= Len(messageHistory)
       /\ SubSeq(after.messageHistory, 1, Len(messageHistory)) = messageHistory
    THEN SubSeq(after.messageHistory, Len(messageHistory) + 1, Len(after.messageHistory))
    ELSE <<[content |-> "", type |-> "history changed"]>>

\* The reply decodes to an object whose status is the given one.
DecodesWithStatus(r, status) ==
    /\ JSONParse(r).ok
    /\ JSONParse(r).v.t = "object"
    /\ Get(JSONParse(r).v, "status") = JSString(status)

SuccessTexts == {r \in ResponseTexts : DecodesWithStatus(r, "success")}

ErrorTexts == {r \in ResponseTexts : DecodesWithStatus(r, "error")}

\* The texts that are no JSON, and the ones that are.
PlainTexts == {r \in ResponseTexts : ~JSONParse(r).ok}

JSONTexts == {r \in ResponseTexts : JSONParse(r).ok}

\* What one call of handleAIResponse on r makes of the current page.
AfterResponse(r) == HandleAIResponse(Page, r).pg

\* C4 (as claimed): for every reply that decodes to an object with status
\* "success", handleAIResponse shows exactly one success banner and appends
\* exactly one assistant message, whose content contains the reply's action
\* and its parameters.
C4_SuccessShowsActionAndParameters ==
    \A r \in SuccessTexts :
        LET after == AfterResponse(r)
            new == Appended(after)
            action == Get(JSONParse(r).v, "action")
            parameters == Get(JSONParse(r).v, "parameters")
        IN  /\ BannerTypes(after) = <<"success">>
            /\ Len(new) = 1
            /\ new[1].type = "assistant"
            /\ action.t = "string" => Contains(new[1].content, action.s)
            /\ parameters.t # "undefined" =>
                   Contains(new[1].content, JSONStringify(parameters))

\* The text shown for an action a: a with its first underscore, if any, turned
\* into a space.
ShowsAction(shown, a) ==
    /\ Len(shown) = Len(a)
    /\ \A i \in 1..Len(a) :
           Char(shown, i) = IF Char(a, i) = "_" /\ \A j \in 1..(i - 1) : Char(a, j) # "_"
                            THEN " "
                            ELSE Char(a, i)

\* content is "Created: ACTION with parameters: PARAMETERS"
IsCreatedMessage(content, a, parameters) ==
    /\ Len(content) = 9 + Len(a) + 18 + Len(parameters)
    /\ SubSeq(content, 1, 9) = "Created: "
    /\ ShowsAction(SubSeq(content, 10, 9 + Len(a)), a)
    /\ SubSeq(content, 10 + Len(a), 27 + Len(a)) = " with parameters: "
    /\ SubSeq(content, 28 + Len(a), Len(content)) = parameters

\* C4 (amended): for every reply that decodes to an object with status
\* "success", handleAIResponse shows exactly one success banner and appends
\* exactly one assistant message; when the reply's action is a string the
\* content is "Created: ", the action with its first underscore replaced by a
\* space, " with parameters: " and the compact JSON of the parameters
\* ("undefined" when there are none); when the action is missing or no string
\* the content is the raw reply.
C4_SuccessShowsFormattedAction ==
    \A r \in SuccessTexts :
        LET after == AfterResponse(r)
            new == Appended(after)
            action == Get(JSONParse(r).v, "action")
            parameters == Get(JSONParse(r).v, "parameters")
        IN  /\ BannerTypes(after) = <<"success">>
            /\ Len(new) = 1
            /\ new[1].type = "assistant"
            /\ IF action.t = "string"
               THEN IsCreatedMessage(new[1].content, action.s, JSONStringify(parameters))
               ELSE new[1].content = r
            /\ r = ReplySuccess =>
                   new[1].content = "Created: make hole with parameters: {\"d\":8}"

\* The success reply was interpreted: its banner and its message are shown.
C4_Witness ==
    /\ BannerTypes(Page) = <<"success">>
    /\ messageHistory # <<>>
    /\ messageHistory[Len(messageHistory)]
           = [content |-> "Created: make hole with parameters: {\"d\":8}",
              type |-> "assistant"]

ShownMessage(message) ==
    CASE message.t = "string" -> message.s
      [] message.t = "number" -> NatToString(message.n)
      [] message.t = "object" -> "[object Object]"
      [] message.t = "undefined" -> "undefined"
      [] message.t = "null" -> "null"
      [] OTHER -> ToDisplayString(message)

C6_PlainTextShownAsIs ==
    \A r \in PlainTexts :
        /\ ~HandleAIResponse(Page, r).threw
        /\ Appended(AfterResponse(r)) = <<[content |-> r, type |-> "assistant"]>>

\* A reply that is no JSON was interpreted: it is the last message.
C6_Witness ==
    /\ ReplyText \in PlainTexts
    /\ messageHistory # <<>>
    /\ messageHistory[Len(messageHistory)] = [content |-> ReplyText, type |-> "assistant"]

\* C7 (as claimed): handleAIResponse takes the plain-text fallback only if
\* decoding fails: for every reply that decodes as JSON, no appended message
\* has the raw reply as its content.
C7_FallbackOnlyOnDecodeFailure ==
    \A r \in JSONTexts :
        LET new == Appended(AfterResponse(r))
        IN  \A i \in 1..Len(new) : new[i].content # r

\* The reply decodes to a value whose status can be read and is missing or
\* none of success, error, processing.
DecodesWithOtherStatus(r) ==
    /\ JSONParse(r).ok
    /\ CanRead(JSONParse(r).v)
    /\ Get(JSONParse(r).v, "status")
           \notin {JSString("success"), JSString("error"), JSString("processing")}

OtherTexts == {r \in ResponseTexts : DecodesWithOtherStatus(r)}

\* C8 (as claimed): handleAIResponse on a reply that decodes but whose status
\* is missing or none of success, error, processing has no visible effect: no
\* message is appended and the banner is as it was before the call.
C8_OtherStatusNoVisibleEffect ==
    \A r \in OtherTexts :
        /\ AfterResponse(r).messageHistory = messageHistory
        /\ AfterResponse(r).messagesContainer = messagesContainer

\* C8 (amended): on such a reply handleAIResponse appends no message and shows
\* no banner, and removes the banner that was there before the call; apart
\* from the callback it schedules, nothing else of the page changes.
C8_OtherStatusRemovesBanner ==
    \A r \in OtherTexts :
        LET after == AfterResponse(r)
        IN  /\ after.messageHistory = messageHistory
            /\ Banners(after) = <<>>
            /\ after.messagesContainer
                   = SelectSeq(messagesContainer, LAMBDA n : n.cls = "message")
            /\ after = [Page EXCEPT !.messagesContainer = after.messagesContainer,
                                    !.fadeTimers = @ + 1]

\* A send was answered by a reply of unrecognised status: the user's message
\* is the only one, the loading banner is gone, the callback is scheduled.
C8_Witness ==
    /\ ReplyNoStatus \in OtherTexts
    /\ Len(messageHistory) = 1
    /\ messageHistory[1].type = "user"
    /\ pending = <<>>
    /\ Banners(Page) = <<>>
    /\ fadeTimers = 1

\* The actions fusionJavaScriptHandler.handle knows.
KnownActions == {"updateMessage", "aiResponse", "debugger"}

\* Actions it does not know.
UnknownActions == {"refresh", "", "OK", "airesponse"}

\* The data handle is evaluated on.
EventData == Replies \cup {UpdateData, "", "{\"myText\":"}

\* C9: for every known action and every data, handle throws nothing and
\* returns "OK", also when the function it dispatches to throws (updateMessage
\* on data that is no JSON), and then no message is appended.
C9_HandleReturnsOk ==
    /\ \A action \in KnownActions, data \in EventData :
           LET r == Handle(Page, action, data)
           IN  /\ ~r.threw
               /\ r.ret = "OK"
               /\ r.caught => r.pg.messageHistory = messageHistory
    /\ Handle(Page, "updateMessage", ReplyText).caught
    /\ lastPush.caught => lastPush.ret = "OK"

\* The host pushed updateMessage with data that is no JSON: the exception was
\* caught, "OK" came back and no message was appended.
C9_Witness ==
    /\ lastPush = [ret |-> "OK", caught |-> TRUE]
    /\ messageHistory = <<>>

\* C10: handle with an action other than updateMessage, aiResponse and
\* debugger returns a diagnostic that is not "OK" and leaves the page as it
\* is: no message, the banner and the send control unchanged.
C10_UnknownActionDiagnostic ==
    /\ \A action \in UnknownActions, data \in EventData :
           LET r == Handle(Page, action, data)
           IN  /\ ~r.threw
               /\ r.ret # "OK"
               /\ r.ret = "Unexpected command type: " \o action
               /\ r.pg = Page
    /\ lastPush.ret \in {"", "OK", "Unexpected command type: refresh"}

\* The host pushed an action handle does not know while a send was pending:
\* the diagnostic came back, the loading banner and the disabled send control
\* are still there.
C10_Witness ==
    /\ lastPush = [ret |-> "Unexpected command type: refresh", caught |-> FALSE]
    /\ BannerTypes(Page) = <<"loading">>
    /\ sendBtnDisabled
    /\ Len(messageHistory) = 1


\* The kinds of banner addStatusMessage is called with.
StatusTypes == {"loading", "success", "error"}

\* The elements of a page that are no banners, in document order.
NonBanners(pg) == SelectSeq(pg.messagesContainer, LAMBDA n : n.cls # "status-message")

\* C11: in every reachable state the page holds at most one banner element,
\* and addStatusMessage in any such state leaves exactly one banner, the new
\* one, at the end of the container, with the messages as they were.
C11_BannerIsSingleton ==
    /\ Len(Banners(Page)) <= 1
    /\ \A type \in StatusTypes :
           LET after == AddStatusMessage(Page, LoadingText, type)
               c == after.messagesContainer
           IN  /\ Len(Banners(after)) = 1
               /\ c[Len(c)].cls = "status-message"
               /\ c[Len(c)].type = type
               /\ c[Len(c)].text = LoadingText
               /\ c[Len(c)].opacity = ""
               /\ \A i \in StatusIndices(messagesContainer) :
                      c[Len(c)].node # messagesContainer[i].node
               /\ NonBanners(after) = NonBanners(Page)
               /\ after.messageHistory = messageHistory

\* A send while the success banner of an earlier host push was still shown:
\* the loading banner took its place.
C11_Witness ==
    /\ Len(messageHistory) = 2
    /\ messageHistory[1].type = "assistant"
    /\ messageHistory[2].type = "user"
    /\ fadeTimers = 1
    /\ Len(pending) = 1
    /\ BannerTypes(Page) = <<"loading">>


\* The element the oldest 300 ms callback holds is attached to the page.
HeldIsAttached(pg) ==
    \E i \in StatusIndices(pg.messagesContainer) :
        pg.messagesContainer[i].node = Head(pg.removeTimers)

\* One callback of the given kind runs, if one is scheduled.
RunTimer(pg, kind) ==
    IF kind = "fade"
    THEN IF pg.fadeTimers > 0 THEN FadeStatus(pg) ELSE pg
    ELSE IF pg.removeTimers # <<>> THEN RemoveFaded(pg) ELSE pg

\* The callbacks run in the given order.
RunTimers(pg, kinds) ==
    RunTimer(RunTimer(RunTimer(RunTimer(pg, kinds[1]), kinds[2]), kinds[3]), kinds[4])

\* Orders in which the callbacks of two calls of handleAIResponse can run.
TimerOrders == {<<"fade", "fade", "remove", "remove">>,
                <<"fade", "remove", "fade", "remove">>}

\* A callback leaves the message list and the message elements as they are
\* and attaches nothing.
TimerKeepsMessages(after, before) ==
    /\ after.messageHistory = before.messageHistory
    /\ NonBanners(after) = NonBanners(before)
    /\ Len(Banners(after)) <= Len(Banners(before))
    /\ after.pending = before.pending
    /\ after.sendBtnDisabled = before.sendBtnDisabled

\* C12: removeStatusMessage on a page without a banner changes nothing, and a
\* second removeStatusMessage changes nothing after the first; a 3000 ms
\* callback that finds no banner and a 300 ms callback whose element is no
\* longer attached change nothing of the page; and the callbacks, also those
\* of two calls of handleAIResponse run in either order, leave the message
\* list and the message elements as they are.
C12_RemovalIsIdempotent ==
    /\ Banners(Page) = <<>> => RemoveStatusMessage(Page) = Page
    /\ RemoveStatusMessage(RemoveStatusMessage(Page)) = RemoveStatusMessage(Page)
    /\ Banners(RemoveStatusMessage(Page)) = <<>>
    /\ fadeTimers > 0 =>
           /\ TimerKeepsMessages(FadeStatus(Page), Page)
           /\ Banners(Page) = <<>> =>
                  FadeStatus(Page) = [Page EXCEPT !.fadeTimers = @ - 1]
    /\ removeTimers # <<>> =>
           /\ TimerKeepsMessages(RemoveFaded(Page), Page)
           /\ ~HeldIsAttached(Page) =>
                  RemoveFaded(Page) = [Page EXCEPT !.removeTimers = Tail(@)]
    /\ \A kinds \in TimerOrders :
           LET before == [Page EXCEPT !.fadeTimers = @ + 2]
               after  == RunTimers(before, kinds)
           IN  /\ TimerKeepsMessages(after, before)
               /\ after.fadeTimers = fadeTimers
               /\ removeTimers = <<>> => Banners(after) = <<>> /\ after.removeTimers = <<>>

\* A 300 ms callback is scheduled for a banner that a send has replaced in the
\* meantime: the element it holds is no longer attached, and another banner
\* is.
C12_Witness ==
    /\ removeTimers # <<>>
    /\ ~HeldIsAttached(Page)
    /\ BannerTypes(Page) = <<"loading">>


\* The page as the reactions to the settlement of bridge call i find it.
Settling(i) == [Page EXCEPT !.pending = RemoveAt(@, i)]

\* The entries of messageHistory the user sent.
UserMessages == SelectSeq(messageHistory, LAMBDA m : m.type = "user")

\* C13: when a bridge call rejects, no banner is left, exactly one assistant
\* message with the generic error text is appended, the call is gone and no
\* other is made, and no timer is scheduled; a send that is accepted makes
\* exactly one call, for the trimmed text; so there are never more calls
\* outstanding than messages the user sent.
C13_RejectionIsTerminal ==
    /\ \A i \in 1..Len(pending) :
           LET after == SettleRejected(Settling(i))
           IN  /\ Banners(after) = <<>>
               /\ Appended(after) = <<[content |-> BridgeErrorText, type |-> "assistant"]>>
               /\ after.pending = RemoveAt(pending, i)
               /\ after.fadeTimers = fadeTimers
               /\ after.removeTimers = removeTimers
               /\ ~after.sendBtnDisabled
    /\ Trim(chatInput) # "" =>
           SendChatMessage(Page).pending
               = Append(pending, [channel |-> "aiCommand", command |-> Trim(chatInput)])
    /\ Len(pending) <= Len(UserMessages)

\* A send was rejected: its message is followed by the generic error, no
\* banner is shown, no call is outstanding and no timer is scheduled.
C13_Witness ==
    /\ messageHistory # <<>>
    /\ messageHistory[Len(messageHistory)] = [content |-> BridgeErrorText, type |-> "assistant"]
    /\ Len(UserMessages) = 1
    /\ Banners(Page) = <<>>
    /\ pending = <<>>
    /\ fadeTimers = 0
    /\ removeTimers = <<>>


\* C14: every step leaves messageHistory as it is or appends exactly one
\* entry at its end, of type user or assistant; the earlier entries stay, in
\* their positions and unchanged.
C14_HistoryIsAppendOnly ==
    [][\/ messageHistory' = messageHistory
       \/ /\ Len(messageHistory') = Len(messageHistory) + 1
          /\ SubSeq(messageHistory', 1, Len(messageHistory)) = messageHistory
          /\ messageHistory'[Len(messageHistory')].type \in {"user", "assistant"}]_vars

\* A send and its success reply: the user's entry is first, the assistant's
\* after it.
C14_Witness ==
    /\ Len(messageHistory) = 2
    /\ messageHistory[1] = [content |-> "Create a 20mm cube", type |-> "user"]
    /\ messageHistory[2].type = "assistant"
    /\ messageHistory[2].content = "Created: make hole with parameters: {\"d\":8}"


\* A loading banner is attached to the page.
HasLoadingBanner(pg) ==
    \E i \in 1..Len(Banners(pg)) : Banners(pg)[i].type = "loading"

\* No host event has been dispatched since the page was loaded.
NoHostEventYet == lastPush = NoPush

\* C15 (as claimed): when no host event has been dispatched, while a bridge
\* call of sendChatMessage is outstanding and its loading banner is attached,
\* a step that settles no call leaves a loading banner attached: an edit of
\* the input, a key press, and in particular the 3000 ms and the 300 ms
\* callback of an earlier handleAIResponse.
C15_LoadingBannerStaysWhilePending ==
    (NoHostEventYet /\ Outstanding # {} /\ HasLoadingBanner(Page)) =>
        /\ \A text \in InputTexts : HasLoadingBanner([Page EXCEPT !.chatInput = text])
        /\ \A ctrlKey \in BOOLEAN, shiftKey \in BOOLEAN :
               HasLoadingBanner(KeydownEnter(Page, ctrlKey, shiftKey))
        /\ fadeTimers > 0 => HasLoadingBanner(FadeStatus(Page))
        /\ removeTimers # <<>> => HasLoadingBanner(RemoveFaded(Page))

=============================================================================
